---- MODULE Spec2Model ----
(***************************************************************************)
(* DiscoveryService of packages/discovery (discovery.service.ts).          *)
(*                                                                         *)
(* The service reads three collaborators: the modules container (an        *)
(* insertion-ordered map of modules, each with an insertion-ordered        *)
(* `routes` map and `components` map of instance wrappers), the metadata   *)
(* scanner (method names of an instance's prototype chain) and the         *)
(* reflect-metadata store (Reflect.getMetadata).  Its own state is the two *)
(* private lists built by the constructor.                                 *)
(*                                                                         *)
(* JavaScript values are modelled as strings: "undefined" is the value     *)
(* Reflect.getMetadata returns when nothing is stored, "false" stands for  *)
(* the stored falsy values (false, 0, ''), every other value is truthy.    *)
(* A thrown TypeError is the outcome [ok |-> FALSE].                       *)
(***************************************************************************)
EXTENDS Naturals, Sequences, FiniteSets, TLC

VARIABLES
    modulesContainer,       \* ModulesContainer: sequence of modules in map order
    metadata,               \* reflect-metadata store: <<key, target>> -> value
    discoveredControllers,  \* private readonly discoveredControllers
    discoveredProviders,    \* private readonly discoveredProviders
    pc,                     \* "new" before the constructor ran, "ready", "returned"
    call,                   \* the query call that returned last
    result                  \* what that call returned

vars == <<modulesContainer, metadata, discoveredControllers, discoveredProviders,
          pc, call, result>>

---------------------------------------------------------------------------
(* Bounds *)

MaxModules == 2     \* modules in the container
MaxEntries == 3     \* wrappers registered over all route/component maps
MaxMeta    == 3     \* entries defined in the metadata store

---------------------------------------------------------------------------
(* Values *)

Undefined == "undefined"
Null      == "null"
TypeError == "TypeError"

PATH_METADATA == "path"
MetaKeys      == {"K", PATH_METADATA}

MetaValues == {"false", "admin", "user"}

Truthy(v) == v \notin {Undefined, Null, "false"}

\* class constructors and method handlers: the targets metadata is attached to
ClassTypes == {"A", "B"}
Handlers   == {"h1", "h2"}
Targets    == ClassTypes \cup Handlers

\* InstanceWrapper: name, instance, metatype.  A value provider has no metatype.
WrapperA == [name |-> "A", instance |-> "a", metatype |-> "A"]
WrapperB == [name |-> "B", instance |-> "b", metatype |-> "B"]
WrapperV == [name |-> "CONFIG", instance |-> "v", metatype |-> Null]

ControllerWrappers == {WrapperA, WrapperB}
ProviderWrappers   == {WrapperA, WrapperB, WrapperV}

ModuleTypes == {"M1", "M2", "M3"}

NestModule(t) ==
    [metatype |-> t, instance |-> t, routes |-> <<>>, components |-> <<>>]

\* class A { m2() {}  m1 = shared }, class B { m1 = shared }: A and B share the
\* handler h1 of m1 (a method taken from a common base); the value "v" has no methods
Prototype(instance) ==
    CASE instance = "a" -> <<[name |-> "m2", fn |-> "h2"], [name |-> "m1", fn |-> "h1"]>>
      [] instance = "b" -> <<[name |-> "m1", fn |-> "h1"]>>
      [] OTHER          -> <<>>

---------------------------------------------------------------------------
(* Sequences *)

Range(s) == {s[i] : i \in 1..Len(s)}

Map(s, f(_)) == [i \in 1..Len(s) |-> f(s[i])]

\* lodash flatMap(collection, f), given the values of f over the collection in
\* order: their concatenation
flatMap(mapped) ==
    LET cat[i \in 0..Len(mapped)] ==
            IF i = 0 THEN <<>> ELSE cat[i - 1] \o mapped[i]
    IN  cat[Len(mapped)]

\* lodash uniqBy(arr, x => x.discoveredMethod.handler): the first element of every
\* handler is kept, in order
uniqByHandler(arr) ==
    LET u[i \in 0..Len(arr)] ==
            IF i = 0 THEN <<>>
            ELSE IF \E j \in 1..Len(u[i - 1]) :
                        u[i - 1][j].discoveredMethod.handler
                            = arr[i].discoveredMethod.handler
                 THEN u[i - 1]
                 ELSE Append(u[i - 1], arr[i])
    IN  u[Len(arr)]

Ok(v)  == [ok |-> TRUE, value |-> v]
Thrown == [ok |-> FALSE, value |-> <<>>]


---------------------------------------------------------------------------
(* Collaborators *)

\* Reflect.getMetadata(key, target): TypeError when target is not an object
getMetadata(metaKey, target) ==
    IF target \in {Null, Undefined} THEN TypeError ELSE metadata[<<metaKey, target>>]

\* MetadataScanner.scanFromPrototype: the method names the callback is called with
scanFromPrototype(prototype) == Map(prototype, LAMBDA m : m.name)

\* prototype[methodName]
Member(prototype, methodName) ==
    (CHOOSE m \in Range(prototype) : m.name = methodName).fn

---------------------------------------------------------------------------
(* Filters a caller passes *)

\* A function value is the record of its name and of the key it closes over.
Fn(name, key) == [fn |-> name, key |-> key]

\* Filter<DiscoveredClass> arguments: x => true (the default), x => x.name === 'A',
\* x => x.parentModule.name === 'M1'
ClassFilters == {Fn("all", "-"), Fn("named", "-"), Fn("inModule", "-")}

\* Filter<T> arguments over a meta value: meta => true (the default),
\* meta => meta === 'admin'
MetaFilters == {Fn("any", "-"), Fn("isAdmin", "-")}

---------------------------------------------------------------------------
(* DiscoveryService *)

withMetaAtKey(key) == Fn("withMetaAtKey", key)

\* the body of the filter withMetaAtKey(key) returns
withMetaAtKeyBody(key, component) == getMetadata(key, component.classType)

\* filter(x), for the filters above
Apply(filter, x) ==
    CASE filter.fn = "withMetaAtKey" -> withMetaAtKeyBody(filter.key, x)
      [] filter.fn = "all"           -> "true"
      [] filter.fn = "named"         -> IF x.name = "A" THEN "true" ELSE "false"
      [] filter.fn = "inModule"      -> IF x.parentModule.name = "M1" THEN "true" ELSE "false"
      [] filter.fn = "any"           -> "true"
      [] filter.fn = "isAdmin"       -> IF x = "admin" THEN "true" ELSE "false"

\* arr.filter(x => filter(x)): the elements for which the filter returns a truthy
\* value are kept; a throw of the filter on any element ends the call
ArrayFilter(arr, filter) ==
    IF \E i \in 1..Len(arr) : Apply(filter, arr[i]) = TypeError
    THEN Thrown
    ELSE Ok(SelectSeq(arr, LAMBDA x : Truthy(Apply(filter, x))))

toDiscoveredClass(nestModule, component) ==
    [name         |-> component.name,
     instance     |-> component.instance,
     classType    |-> component.metatype,
     parentModule |-> [name      |-> nestModule.metatype,
                       instance  |-> nestModule.instance,
                       classType |-> nestModule.metatype]]

\* the controller list taken from the `components` maps
constructorControllersOfComponents(modulesMap) ==
    flatMap(Map(modulesMap,
                LAMBDA nestModule :
                    Map(nestModule.components,
                        LAMBDA component : toDiscoveredClass(nestModule, component))))

constructorControllers(modulesMap) ==
    flatMap(Map(modulesMap,
                LAMBDA nestModule :
                    Map(nestModule.routes,
                        LAMBDA component : toDiscoveredClass(nestModule, component))))

constructorProviders(modulesMap) ==
    flatMap(Map(modulesMap,
                LAMBDA nestModule :
                    Map(nestModule.components,
                        LAMBDA component : toDiscoveredClass(nestModule, component))))

providers(filter) == ArrayFilter(discoveredProviders, filter)

\* the container read at the time of the call instead of the constructor's list
controllersOfContainer(filter) ==
    ArrayFilter(flatMap(Map(modulesContainer,
                            LAMBDA nestModule :
                                Map(nestModule.routes,
                                    LAMBDA component :
                                        toDiscoveredClass(nestModule, component)))),
                filter)

controllers(filter) == ArrayFilter(discoveredControllers, filter)

providersWithMetaAtKey(metaKey) ==
    LET found == providers(withMetaAtKey(metaKey))
    IN  IF ~found.ok THEN Thrown
        ELSE Ok(Map(found.value,
                    LAMBDA x : [meta            |-> getMetadata(metaKey, x.classType),
                                discoveredClass |-> x]))

controllersWithMetaAtKey(metaKey) ==
    LET found == controllers(withMetaAtKey(metaKey))
    IN  IF ~found.ok THEN Thrown
        ELSE Ok(Map(found.value,
                    LAMBDA x : [meta            |-> getMetadata(metaKey, x.classType),
                                discoveredClass |-> x]))

\* the meta read from the class of the method instead of from its handler
extractMethodMetaOfClass(metaKey, discoveredClass, prototype, methodName) ==
    LET handler == Member(prototype, methodName)
    IN  [meta             |-> getMetadata(metaKey, discoveredClass.classType),
         discoveredMethod |-> [handler     |-> handler,
                               methodName  |-> methodName,
                               parentClass |-> discoveredClass]]

extractMethodMetaAtKey(metaKey, discoveredClass, prototype, methodName) ==
    LET handler == Member(prototype, methodName)
    IN  [meta             |-> getMetadata(metaKey, handler),
         discoveredMethod |-> [handler     |-> handler,
                               methodName  |-> methodName,
                               parentClass |-> discoveredClass]]

classMethodsWithMetaAtKey(component, metaKey) ==
    LET prototype == Prototype(component.instance)
    IN  SelectSeq(Map(scanFromPrototype(prototype),
                      LAMBDA name :
                          extractMethodMetaAtKey(metaKey, component, prototype, name)),
                  LAMBDA x : Truthy(x.meta))

providerMethodsWithMetaAtKey(metaKey, providerFilter) ==
    LET found == providers(providerFilter)
    IN  IF ~found.ok THEN Thrown
        ELSE Ok(flatMap(Map(found.value,
                            LAMBDA provider :
                                classMethodsWithMetaAtKey(provider, metaKey))))

\* the methods of the controllers with every handler kept once
controllerMethodsUniqueByHandler(metaKey, controllerFilter) ==
    LET found == controllers(controllerFilter)
    IN  IF ~found.ok THEN Thrown
        ELSE Ok(uniqByHandler(flatMap(Map(found.value,
                            LAMBDA controller :
                                classMethodsWithMetaAtKey(controller, metaKey)))))

controllerMethodsWithMetaAtKey(metaKey, controllerFilter) ==
    LET found == controllers(controllerFilter)
    IN  IF ~found.ok THEN Thrown
        ELSE Ok(flatMap(Map(found.value,
                            LAMBDA controller :
                                classMethodsWithMetaAtKey(controller, metaKey))))

\* the decorated controllers scanned for metaKey instead of the route path key
methodsFromDecoratedControllersAtMetaKey(metaKey, metaFilter) ==
    LET withMeta == controllersWithMetaAtKey(metaKey)
    IN  IF ~withMeta.ok THEN Thrown
        ELSE Ok(flatMap(Map(SelectSeq(withMeta.value,
                                      LAMBDA x : Truthy(Apply(metaFilter, x.meta))),
                            LAMBDA controller :
                                classMethodsWithMetaAtKey(controller.discoveredClass,
                                                          metaKey))))

\* methodsAndControllerMethodsWithMetaAtKey, its first two statements
methodsFromDecoratedControllers(metaKey, metaFilter) ==
    LET withMeta == controllersWithMetaAtKey(metaKey)
    IN  IF ~withMeta.ok THEN Thrown
        ELSE Ok(flatMap(Map(SelectSeq(withMeta.value,
                                      LAMBDA x : Truthy(Apply(metaFilter, x.meta))),
                            LAMBDA controller :
                                classMethodsWithMetaAtKey(controller.discoveredClass,
                                                          PATH_METADATA))))

\* methodsAndControllerMethodsWithMetaAtKey, its third statement
decoratedMethods(metaKey, metaFilter) ==
    LET found == controllerMethodsWithMetaAtKey(metaKey, Fn("all", "-"))
    IN  IF ~found.ok THEN Thrown
        ELSE Ok(SelectSeq(found.value, LAMBDA x : Truthy(Apply(metaFilter, x.meta))))

\* the two lists returned without uniqBy
methodsAndControllerMethodsNotUnique(metaKey, metaFilter) ==
    LET fromControllers == methodsFromDecoratedControllers(metaKey, metaFilter)
        decorated == decoratedMethods(metaKey, metaFilter)
    IN  IF ~fromControllers.ok \/ ~decorated.ok THEN Thrown
        ELSE Ok(fromControllers.value \o decorated.value)

methodsAndControllerMethodsWithMetaAtKey(metaKey, metaFilter) ==
    LET fromControllers == methodsFromDecoratedControllers(metaKey, metaFilter)
        decorated == decoratedMethods(metaKey, metaFilter)
    IN  IF ~fromControllers.ok \/ ~decorated.ok THEN Thrown
        ELSE Ok(uniqByHandler(fromControllers.value \o decorated.value))

---------------------------------------------------------------------------
(* The call record *)

NoClass ==
    [name |-> "-", instance |-> "-", classType |-> "-",
     parentModule |-> [name |-> "-", instance |-> "-", classType |-> "-"]]

NoCall == [op |-> "-", key |-> "-", filter |-> Fn("-", "-"), component |-> NoClass]

Call(op, key, filter, component) ==
    [op |-> op, key |-> key, filter |-> filter, component |-> component]

Returns(c, r) ==
    /\ pc \in {"ready", "returned"}
    /\ pc' = "returned"
    /\ call' = c
    /\ result' = r
    /\ UNCHANGED <<modulesContainer, metadata, discoveredControllers, discoveredProviders>>

---------------------------------------------------------------------------
(* The container and the metadata store, written by the framework and by    *)
(* decorators, outside the service                                          *)

EntryCount(container) ==
    LET n[i \in 0..Len(container)] ==
            IF i = 0 THEN 0
            ELSE n[i - 1] + Len(container[i].routes) + Len(container[i].components)
    IN  n[Len(container)]

Names(wrappers) == {wrappers[j].name : j \in 1..Len(wrappers)}

\* the container changes keep the last returned value: a query reads the lists only
addModule(t) ==
    /\ Len(modulesContainer) < MaxModules
    /\ \A i \in 1..Len(modulesContainer) : modulesContainer[i].metatype # t
    /\ modulesContainer' = Append(modulesContainer, NestModule(t))
    /\ UNCHANGED <<metadata, discoveredControllers, discoveredProviders, pc, call, result>>

addController(i, w) ==
    /\ EntryCount(modulesContainer) < MaxEntries
    /\ w.name \notin Names(modulesContainer[i].routes)
    /\ modulesContainer' =
           [modulesContainer EXCEPT ![i].routes = Append(@, w)]
    /\ UNCHANGED <<metadata, discoveredControllers, discoveredProviders, pc, call, result>>

addProvider(i, w) ==
    /\ EntryCount(modulesContainer) < MaxEntries
    /\ w.name \notin Names(modulesContainer[i].components)
    /\ modulesContainer' =
           [modulesContainer EXCEPT ![i].components = Append(@, w)]
    /\ UNCHANGED <<metadata, discoveredControllers, discoveredProviders, pc, call, result>>

Without(s, j) == [n \in 1..(Len(s) - 1) |-> IF n < j THEN s[n] ELSE s[n + 1]]

removeController(i, j) ==
    /\ modulesContainer' =
           [modulesContainer EXCEPT ![i].routes = Without(@, j)]
    /\ UNCHANGED <<metadata, discoveredControllers, discoveredProviders, pc, call, result>>

removeProvider(i, j) ==
    /\ modulesContainer' =
           [modulesContainer EXCEPT ![i].components = Without(@, j)]
    /\ UNCHANGED <<metadata, discoveredControllers, discoveredProviders, pc, call, result>>

removeModule(i) ==
    /\ modulesContainer' = Without(modulesContainer, i)
    /\ UNCHANGED <<metadata, discoveredControllers, discoveredProviders, pc, call, result>>

DefinedCount == Cardinality({s \in DOMAIN metadata : metadata[s] # Undefined})

\* Reflect.defineMetadata(key, value, target), as a decorator does.  The value a
\* query returned describes the store it read, so a write ends its validity.
defineMetadata(k, t, v) ==
    /\ metadata[<<k, t>>] # v
    /\ DefinedCount < MaxMeta \/ metadata[<<k, t>>] # Undefined
    /\ metadata' = [metadata EXCEPT ![<<k, t>>] = v]
    /\ pc' = IF pc = "new" THEN "new" ELSE "ready"
    /\ call' = NoCall
    /\ result' = Ok(<<>>)
    /\ UNCHANGED <<modulesContainer, discoveredControllers, discoveredProviders>>

---------------------------------------------------------------------------
(* The service's operations *)

Constructor ==
    /\ pc = "new"
    /\ discoveredControllers' = constructorControllers(modulesContainer)
    /\ discoveredProviders' = constructorProviders(modulesContainer)
    /\ pc' = "ready"
    /\ UNCHANGED <<modulesContainer, metadata, call, result>>

Discovered == Range(discoveredControllers) \cup Range(discoveredProviders)

Providers(f) ==
    Returns(Call("providers", "-", f, NoClass), providers(f))

Controllers(f) ==
    Returns(Call("controllers", "-", f, NoClass), controllers(f))

ProvidersWithMetaAtKey(k) ==
    Returns(Call("providersWithMetaAtKey", k, Fn("-", "-"), NoClass),
            providersWithMetaAtKey(k))

ControllersWithMetaAtKey(k) ==
    Returns(Call("controllersWithMetaAtKey", k, Fn("-", "-"), NoClass),
            controllersWithMetaAtKey(k))

ClassMethodsWithMetaAtKey(c, k) ==
    Returns(Call("classMethodsWithMetaAtKey", k, Fn("-", "-"), c),
            Ok(classMethodsWithMetaAtKey(c, k)))

ProviderMethodsWithMetaAtKey(k, f) ==
    Returns(Call("providerMethodsWithMetaAtKey", k, f, NoClass),
            providerMethodsWithMetaAtKey(k, f))

ControllerMethodsWithMetaAtKey(k, f) ==
    Returns(Call("controllerMethodsWithMetaAtKey", k, f, NoClass),
            controllerMethodsWithMetaAtKey(k, f))

MethodsAndControllerMethodsWithMetaAtKey(k, f) ==
    Returns(Call("methodsAndControllerMethodsWithMetaAtKey", k, f, NoClass),
            methodsAndControllerMethodsWithMetaAtKey(k, f))

---------------------------------------------------------------------------
(* Spec: construction.  The framework fills the container, the constructor  *)
(* takes its snapshot, and the two lists are read back through              *)
(* controllers(filter) and providers(filter).                               *)

EmptyStore == [s \in MetaKeys \X Targets |-> Undefined]

Init ==
    /\ modulesContainer = <<>>
    /\ metadata = EmptyStore
    /\ discoveredControllers = <<>>
    /\ discoveredProviders = <<>>
    /\ pc = "new"
    /\ call = NoCall
    /\ result = Ok(<<>>)

Next ==
    \/ pc = "new" /\ \E t \in ModuleTypes : addModule(t)
    \/ pc = "new" /\ \E i \in 1..Len(modulesContainer), w \in ControllerWrappers :
                         addController(i, w)
    \/ pc = "new" /\ \E i \in 1..Len(modulesContainer), w \in ProviderWrappers :
                         addProvider(i, w)
    \/ Constructor
    \/ \E f \in ClassFilters : Providers(f)
    \/ \E f \in ClassFilters : Controllers(f)

Spec == Init /\ [][Next]_vars

---------------------------------------------------------------------------
(* SpecApp: a constructed service over a fixed application, queried by      *)
(* metadata while decorators write the store.                               *)

WithEntries(t, routes, components) ==
    [metatype |-> t, instance |-> t, routes |-> routes, components |-> components]

Applications ==
    { <<>>,
      <<WithEntries("M1", <<WrapperA, WrapperB>>, <<WrapperB, WrapperA>>)>>,
      <<WithEntries("M1", <<WrapperB>>, <<WrapperA, WrapperV>>),
        WithEntries("M2", <<WrapperA>>, <<>>)>> }

InitApp ==
    /\ modulesContainer \in Applications
    /\ metadata = EmptyStore
    /\ discoveredControllers = constructorControllers(modulesContainer)
    /\ discoveredProviders = constructorProviders(modulesContainer)
    /\ pc = "ready"
    /\ call = NoCall
    /\ result = Ok(<<>>)

\* the caller takes the returned value
Return ==
    /\ pc = "returned"
    /\ pc' = "ready"
    /\ call' = NoCall
    /\ result' = Ok(<<>>)
    /\ UNCHANGED <<modulesContainer, metadata, discoveredControllers, discoveredProviders>>

\* one call at a time: the caller takes a value before it calls again, and the
\* decorators write between calls
NextApp ==
    \/ pc = "ready" /\ \E k \in MetaKeys, t \in Targets, v \in MetaValues :
                           defineMetadata(k, t, v)
    \/ pc = "ready" /\ \E k \in MetaKeys : ProvidersWithMetaAtKey(k)
    \/ pc = "ready" /\ \E k \in MetaKeys : ControllersWithMetaAtKey(k)
    \/ pc = "ready" /\ \E c \in Discovered, k \in MetaKeys :
                           ClassMethodsWithMetaAtKey(c, k)
    \/ pc = "ready" /\ \E k \in MetaKeys, f \in ClassFilters :
                           ProviderMethodsWithMetaAtKey(k, f)
    \/ pc = "ready" /\ \E k \in MetaKeys, f \in ClassFilters :
                           ControllerMethodsWithMetaAtKey(k, f)
    \/ pc = "ready" /\ \E k \in MetaKeys, f \in MetaFilters :
                           MethodsAndControllerMethodsWithMetaAtKey(k, f)
    \/ Return

SpecApp == InitApp /\ [][NextApp]_vars

---------------------------------------------------------------------------
(* SpecLive: a constructed service over a decorated application whose       *)
(* container keeps changing, and whose controller A is decorated anew,      *)
(* while every query is called.                                             *)

DecoratedStore ==
    [s \in MetaKeys \X Targets |->
        CASE s = <<"K", "A">>            -> "admin"
          [] s = <<PATH_METADATA, "h1">> -> "admin"
          [] s = <<"K", "h2">>           -> "user"
          [] OTHER                       -> Undefined]

LiveApplications ==
    { <<WithEntries("M1", <<WrapperA>>, <<WrapperB>>)>>,
      <<WithEntries("M2", <<WrapperB>>, <<>>), WithEntries("M1", <<>>, <<WrapperA>>)>> }

InitLive ==
    /\ modulesContainer \in LiveApplications
    /\ metadata = DecoratedStore
    /\ discoveredControllers = constructorControllers(modulesContainer)
    /\ discoveredProviders = constructorProviders(modulesContainer)
    /\ pc = "ready"
    /\ call = NoCall
    /\ result = Ok(<<>>)

NextLive ==
    \/ \E t \in {"M1", "M2"} : addModule(t)
    \/ \E i \in 1..Len(modulesContainer), w \in ControllerWrappers : addController(i, w)
    \/ \E i \in 1..Len(modulesContainer), w \in ProviderWrappers : addProvider(i, w)
    \/ \E i \in 1..Len(modulesContainer) :
           \E j \in 1..Len(modulesContainer[i].routes) : removeController(i, j)
    \/ \E i \in 1..Len(modulesContainer) :
           \E j \in 1..Len(modulesContainer[i].components) : removeProvider(i, j)
    \/ \E i \in 1..Len(modulesContainer) : removeModule(i)
    \/ \E v \in MetaValues : defineMetadata("K", "A", v)
    \/ Providers(Fn("inModule", "-"))
    \/ Controllers(Fn("all", "-"))
    \/ ProvidersWithMetaAtKey("K")
    \/ ControllersWithMetaAtKey("K")
    \/ \E c \in Discovered : ClassMethodsWithMetaAtKey(c, "K")
    \/ ProviderMethodsWithMetaAtKey("K", Fn("all", "-"))
    \/ ControllerMethodsWithMetaAtKey(PATH_METADATA, Fn("named", "-"))
    \/ MethodsAndControllerMethodsWithMetaAtKey("K", Fn("any", "-"))

SpecLive == InitLive /\ [][NextLive]_vars

---------------------------------------------------------------------------
(* What the claims are stated against: the container's entries, written out *)
(* position by position                                                     *)

MapOf(nestModule, kind) ==
    IF kind = "controllers" THEN nestModule.routes ELSE nestModule.components

\* entries of the maps of the modules before module i
Before(container, i, kind) ==
    LET n[m \in 0..Len(container)] ==
            IF m = 0 THEN 0 ELSE n[m - 1] + Len(MapOf(container[m], kind))
    IN  n[i - 1]

RecordOf(nestModule, wrapper) ==
    [name         |-> wrapper.name,
     instance     |-> wrapper.instance,
     classType    |-> wrapper.metatype,
     parentModule |-> [name      |-> nestModule.metatype,
                       instance  |-> nestModule.instance,
                       classType |-> nestModule.metatype]]

\* one record per map entry: modules in container order, entries in map order
FullEnumeration(container, kind) ==
    [p \in 1..Before(container, Len(container) + 1, kind) |->
        LET i == CHOOSE m \in 1..Len(container) :
                     /\ Before(container, m, kind) < p
                     /\ p <= Before(container, m, kind) + Len(MapOf(container[m], kind))
        IN  RecordOf(container[i], MapOf(container[i], kind)[p - Before(container, i, kind)])]

\* what a caller's predicate answers for a record
Holds(f, x) ==
    \/ f.fn = "all"
    \/ f.fn = "named" /\ x.name = "A"
    \/ f.fn = "inModule" /\ x.parentModule.name = "M1"

Satisfying(records, f) == SelectSeq(records, LAMBDA x : Holds(f, x))

\* C1: controllers(f) and providers(f) return the records of the full enumeration of
\* the route (component) maps that satisfy f, in enumeration order; the enumeration
\* has one record per map entry, modules in container order, entries in map order
C1_FilteredEnumeration ==
    (pc = "returned" /\ call.op \in {"controllers", "providers"}) =>
        /\ result.ok
        /\ result.value =
               Satisfying(FullEnumeration(modulesContainer, call.op), call.filter)
        /\ call.filter.fn = "all" =>
               Len(result.value) =
                   Before(modulesContainer, Len(modulesContainer) + 1, call.op)

\* two modules with one controller each; the filter keeps the second record only
C1_Witness ==
    /\ pc = "returned"
    /\ call.op = "controllers"
    /\ call.filter.fn = "inModule"
    /\ Len(modulesContainer) = 2
    /\ Len(discoveredControllers) = 2
    /\ discoveredControllers[1].parentModule.name = "M2"
    /\ result.value = <<discoveredControllers[2]>>

\* C9: after construction no step changes the two lists, no query writes the
\* metadata store, and a query called again with the same arguments over an
\* unchanged store returns what it returned before, whatever the container became
C9_Snapshot ==
    [][ /\ discoveredControllers' = discoveredControllers
        /\ discoveredProviders' = discoveredProviders
        /\ pc' = "returned" => metadata' = metadata
        /\ (pc' = "returned" /\ call # NoCall /\ call' = call /\ metadata' = metadata)
               => result' = result ]_vars

\* controllers(all) has returned the constructor's list although the container's
\* routes are no longer those
C9_Witness ==
    /\ pc = "returned"
    /\ call.op = "controllers"
    /\ call.filter.fn = "all"
    /\ result.value = discoveredControllers
    /\ FullEnumeration(modulesContainer, "controllers") # discoveredControllers
    /\ Len(discoveredControllers) > 0

---------------------------------------------------------------------------
(* What the metadata claims are stated against: the store and the class     *)
(* definitions, read directly                                               *)

\* the value the store holds at key k for a target; nothing for an absent type
Stored(k, target) == IF target \in Targets THEN metadata[<<k, target>>] ELSE Undefined

HasMeta(k, target) == Stored(k, target) # Undefined

NonFalsy(v) == v # Undefined /\ v # "false"

Passes(f, meta) == f.fn = "any" \/ (f.fn = "isAdmin" /\ meta = "admin")

ListOf(op) ==
    IF op \in {"controllersWithMetaAtKey", "controllerMethodsWithMetaAtKey"}
    THEN discoveredControllers
    ELSE discoveredProviders

Joined(lists) ==
    LET j[i \in 0..Len(lists)] == IF i = 0 THEN <<>> ELSE j[i - 1] \o lists[i]
    IN  j[Len(lists)]

\* the entries of s whose handler no earlier entry of s has
FirstPerHandler(s) ==
    LET kept == {i \in 1..Len(s) :
                    \A j \in 1..(i - 1) :
                        s[j].discoveredMethod.handler # s[i].discoveredMethod.handler}
        pick[n \in 0..Len(s)] ==
            IF n = 0 THEN <<>>
            ELSE IF n \in kept THEN Append(pick[n - 1], s[n]) ELSE pick[n - 1]
    IN  pick[Len(s)]

\* one entry per method of the class of c whose handler holds a non-falsy value at k
TaggedMethods(c, k) ==
    LET tagged == SelectSeq(Prototype(c.instance), LAMBDA m : NonFalsy(Stored(k, m.fn)))
    IN  [i \in 1..Len(tagged) |->
            [meta             |-> Stored(k, tagged[i].fn),
             discoveredMethod |-> [handler     |-> tagged[i].fn,
                                   methodName  |-> tagged[i].name,
                                   parentClass |-> c]]]

WithMetaOps == {"controllersWithMetaAtKey", "providersWithMetaAtKey"}

\* C2: controllersWithMetaAtKey(k) and providersWithMetaAtKey(k) hold no entry whose
\* class has no metadata at k and no entry with an undefined meta, and when no class
\* of the list has metadata at k the call returns the empty list
C2_NoEntryWithoutMeta ==
    (pc = "returned" /\ call.op \in WithMetaOps) =>
        /\ \A i \in 1..Len(result.value) :
               /\ HasMeta(call.key, result.value[i].discoveredClass.classType)
               /\ result.value[i].meta # Undefined
        /\ (\A i \in 1..Len(ListOf(call.op)) :
                ~HasMeta(call.key, ListOf(call.op)[i].classType))
               => (result.ok /\ result.value = <<>>)

\* C3: controllersWithMetaAtKey(k) and providersWithMetaAtKey(k) hold, in list order,
\* one entry for every discovered class at whose type the store holds any value at k,
\* falsy values included, with the stored value as meta
C3_EntryForEveryTaggedClass ==
    (pc = "returned" /\ call.op \in WithMetaOps) =>
        LET tagged == SelectSeq(ListOf(call.op),
                                LAMBDA x : HasMeta(call.key, x.classType))
        IN  result.value =
                [i \in 1..Len(tagged) |->
                    [meta            |-> Stored(call.key, tagged[i].classType),
                     discoveredClass |-> tagged[i]]]

\* C4: classMethodsWithMetaAtKey(c, k) returns, in scan order, one entry per method
\* name whose handler holds a non-falsy value at k, with that value as meta, the
\* prototype's member as handler and c as parentClass; no entry has a falsy meta
C4_ClassMethods ==
    (pc = "returned" /\ call.op = "classMethodsWithMetaAtKey") =>
        /\ result.ok
        /\ result.value = TaggedMethods(call.component, call.key)
        /\ \A i \in 1..Len(result.value) : NonFalsy(result.value[i].meta)

\* class A is tagged at K, its method m2 holds a falsy value at K and m1 a truthy
\* one: m1 alone is returned
C4_Witness ==
    /\ pc = "returned"
    /\ call.op = "classMethodsWithMetaAtKey"
    /\ call.key = "K"
    /\ call.component.instance = "a"
    /\ metadata[<<"K", "A">>] = "admin"
    /\ metadata[<<"K", "h2">>] = "false"
    /\ metadata[<<"K", "h1">>] = "user"
    /\ Len(result.value) = 1
    /\ result.value[1].discoveredMethod.methodName = "m1"

CompositeOp == "methodsAndControllerMethodsWithMetaAtKey"

\* C5: methodsAndControllerMethodsWithMetaAtKey never returns two entries with the
\* same method handler
C5_UniqueHandlers ==
    (pc = "returned" /\ call.op = CompositeOp) =>
        \A i, j \in 1..Len(result.value) :
            i # j => result.value[i].discoveredMethod.handler
                         # result.value[j].discoveredMethod.handler

\* controllers A and B are both tagged at K and share the route handler h1: h1 is
\* reached through both and returned once
C5_Witness ==
    /\ pc = "returned"
    /\ call.op = CompositeOp
    /\ call.key = "K"
    /\ Len(discoveredControllers) = 2
    /\ \A i \in 1..2 : NonFalsy(metadata[<<"K", discoveredControllers[i].classType>>])
    /\ NonFalsy(metadata[<<PATH_METADATA, "h1">>])
    /\ Cardinality({i \in 1..Len(result.value) :
                       result.value[i].discoveredMethod.handler = "h1"}) = 1

\* C6: the composite query returns A ++ B with later duplicates by handler removed:
\* A lists, per controller whose class holds any value at k that passes metaFilter,
\* its methods carrying the route path key; B lists the methods of all controllers
\* directly tagged with k whose meta passes metaFilter
C6_InheritedThenDecorated ==
    (pc = "returned" /\ call.op = CompositeOp) =>
        LET k == call.key
            decorated == SelectSeq(discoveredControllers,
                             LAMBDA c : /\ HasMeta(k, c.classType)
                                        /\ Passes(call.filter, Stored(k, c.classType)))
            A == Joined([i \in 1..Len(decorated) |->
                            TaggedMethods(decorated[i], PATH_METADATA)])
            B == SelectSeq(Joined([i \in 1..Len(discoveredControllers) |->
                                      TaggedMethods(discoveredControllers[i], k)]),
                           LAMBDA x : Passes(call.filter, x.meta))
        IN  result.ok /\ result.value = FirstPerHandler(A \o B)

\* C7: controllerMethodsWithMetaAtKey(k, filter) and providerMethodsWithMetaAtKey(k,
\* filter) return the concatenation of classMethodsWithMetaAtKey(class, k) over the
\* classes that satisfy the filter, in list order, with nothing removed
C7_Flattened ==
    (pc = "returned" /\ call.op \in {"controllerMethodsWithMetaAtKey",
                                     "providerMethodsWithMetaAtKey"}) =>
        LET chosen == Satisfying(ListOf(call.op), call.filter)
        IN  /\ result.ok
            /\ result.value =
                   Joined([i \in 1..Len(chosen) |-> TaggedMethods(chosen[i], call.key)])

\* two controllers with one method tagged at K each (the handler they share): two
\* entries, one per controller
C7_Witness ==
    /\ pc = "returned"
    /\ call.op = "controllerMethodsWithMetaAtKey"
    /\ call.filter.fn = "all"
    /\ call.key = "K"
    /\ ~HasMeta("K", "A") /\ ~HasMeta("K", "B") /\ ~HasMeta("K", "h2")
    /\ Len(result.value) = 2
    /\ result.value[1].discoveredMethod.handler = result.value[2].discoveredMethod.handler
    /\ result.value[1].discoveredMethod.parentClass
           # result.value[2].discoveredMethod.parentClass

\* C8: with a component of unresolved type in the list, controllersWithMetaAtKey(k)
\* and providersWithMetaAtKey(k) return normally and leave that record out
C8_UnresolvedTypeIsNoMetadata ==
    (pc = "returned" /\ call.op \in WithMetaOps) =>
        /\ result.ok
        /\ \A i \in 1..Len(result.value) :
               result.value[i].discoveredClass.classType \in ClassTypes

\* a handler is class-inherited when a controller found by controllersWithMetaAtKey(k)
\* whose meta passes metaFilter has it as a method carrying the route path key
Inherited(h, k, f) ==
    \E i \in 1..Len(discoveredControllers) :
        LET c == discoveredControllers[i]
        IN  /\ NonFalsy(Stored(k, c.classType))
            /\ Passes(f, Stored(k, c.classType))
            /\ \E n \in 1..Len(Prototype(c.instance)) : Prototype(c.instance)[n].fn = h
            /\ NonFalsy(Stored(PATH_METADATA, h))

\* C10: in the composite query's result a class-inherited entry carries the handler's
\* route path value as meta, whatever the handler's own meta at k is; every other
\* entry carries the handler's own meta at k, which passes metaFilter
C10_MetaOfInherited ==
    (pc = "returned" /\ call.op = CompositeOp) =>
        \A i \in 1..Len(result.value) :
            LET e == result.value[i]
                h == e.discoveredMethod.handler
            IN  IF Inherited(h, call.key, call.filter)
                THEN e.meta = Stored(PATH_METADATA, h)
                ELSE /\ e.meta = Stored(call.key, h)
                     /\ NonFalsy(e.meta)
                     /\ Passes(call.filter, e.meta)

\* controller A passes the filter, its route handler h1 is itself tagged at K with a
\* value the filter rejects: h1 is returned with its route path value
C10_Witness ==
    /\ pc = "returned"
    /\ call.op = CompositeOp
    /\ call.key = "K"
    /\ call.filter.fn = "isAdmin"
    /\ metadata[<<"K", "A">>] = "admin"
    /\ metadata[<<"K", "h1">>] = "user"
    /\ metadata[<<PATH_METADATA, "h1">>] = "admin"
    /\ \E i \in 1..Len(result.value) :
           /\ result.value[i].discoveredMethod.handler = "h1"
           /\ result.value[i].meta = "admin"

====
